---------------------------- MODULE Spec2Model ----------------------------
(***************************************************************************)
(* wine-vision: the analysis orchestrator (POST /api/analyze) and the      *)
(* submission client (Page.onPickFile / Page.onSubmit).                    *)
(*                                                                         *)
(* Strings are sequences of pieces.  Wherever the code works on single     *)
(* characters (the anchors of the fence regexes, trim, slice) the pieces   *)
(* are single characters; a fixed literal of the program, a word of an     *)
(* error message or the content of a JSON string may be one longer piece.  *)
(* JavaScript values are tagged records, so that values of different types *)
(* can be compared.                                                        *)
(***************************************************************************)
EXTENDS Integers, Sequences, FiniteSets, TLC

(***************************************************************************)
(* JavaScript values                                                       *)
(***************************************************************************)
Undef == [t |-> "undefined"]
Null == [t |-> "null"]
Bool(b) == [t |-> "bool", b |-> b]
\* a number is kept as its lexeme: the program never computes with one
Num(n) == [t |-> "num", n |-> n]
Str(s) == [t |-> "str", s |-> s]
Arr(a) == [t |-> "arr", a |-> a]
Obj(o) == [t |-> "obj", o |-> o]
EmptyMap == [k \in {} |-> Null]

\* Boolean(v)
Truthy(v) ==
  CASE v.t = "undefined" -> FALSE
    [] v.t = "null" -> FALSE
    [] v.t = "bool" -> v.b
    [] v.t = "num" -> v.n # "0"
    [] v.t = "str" -> v.s # <<>>
    [] OTHER -> TRUE

\* v == null (null or undefined)
Nullish(v) == v.t \in {"undefined", "null"}

\* v?.k, and v.k on a value that is neither null nor undefined
Get(v, k) ==
  IF v.t = "obj" /\ k \in DOMAIN v.o THEN v.o[k] ELSE Undef

\* obj with obj.k = x
Put(v, k, x) == Obj((k :> x) @@ v.o)

RECURSIVE ToStringJS(_)
RECURSIVE JoinJS(_, _)
\* Array.prototype.join: null and undefined elements give the empty string
JoinJS(a, sep) ==
  IF a = <<>> THEN <<>>
  ELSE LET h == IF Nullish(a[1]) THEN <<>> ELSE ToStringJS(a[1])
       IN IF Len(a) = 1 THEN h ELSE h \o sep \o JoinJS(Tail(a), sep)

\* String(v), as in a template literal or a string concatenation
ToStringJS(v) ==
  CASE v.t = "undefined" -> <<"undefined">>
    [] v.t = "null" -> <<"null">>
    [] v.t = "bool" -> IF v.b THEN <<"true">> ELSE <<"false">>
    [] v.t = "num" -> <<v.n>>
    [] v.t = "str" -> v.s
    [] v.t = "arr" -> JoinJS(v.a, <<",">>)
    [] OTHER -> <<"[object Object]">>

(***************************************************************************)
(* JSON.parse, on a text of pieces: the structural characters, the         *)
(* literals null, true, false, numbers, and string literals written        *)
(* quote, content pieces, quote.                                           *)
(***************************************************************************)
Ws == {" ", "\n", "\t"}
Quote == "\""
NumberLexemes == {"0", "1", "5", "12", "18", "2015"}

RECURSIVE SkipWs(_, _)
SkipWs(s, i) ==
  IF i <= Len(s) /\ s[i] \in Ws THEN SkipWs(s, i + 1) ELSE i

RECURSIVE ScanQuote(_, _)
\* the index of the next quote at or after i, or 0 when there is none
ScanQuote(s, i) ==
  IF i > Len(s) THEN 0
  ELSE IF s[i] = Quote THEN i ELSE ScanQuote(s, i + 1)

RECURSIVE Concat(_)
Concat(s) == IF s = <<>> THEN "" ELSE s[1] \o Concat(Tail(s))

ParseFail == [ok |-> FALSE, v |-> Undef, i |-> 0]
ParseOk(v, i) == [ok |-> TRUE, v |-> v, i |-> i]

RECURSIVE ParseValue(_, _)
RECURSIVE ParseMembers(_, _, _)
RECURSIVE ParseElements(_, _, _)

\* the members of an object from position i (after "{" or ","), acc the members so far
ParseMembers(s, i, acc) ==
  LET k == SkipWs(s, i) IN
  IF k > Len(s) \/ s[k] # Quote THEN ParseFail
  ELSE LET q == ScanQuote(s, k + 1) IN
    IF q = 0 THEN ParseFail
    ELSE LET key == Concat(SubSeq(s, k + 1, q - 1))
             c == SkipWs(s, q + 1)
         IN IF c > Len(s) \/ s[c] # ":" THEN ParseFail
            ELSE LET pv == ParseValue(s, SkipWs(s, c + 1)) IN
              IF ~pv.ok THEN ParseFail
              ELSE LET acc2 == (key :> pv.v) @@ acc
                       e == SkipWs(s, pv.i)
                   IN IF e > Len(s) THEN ParseFail
                      ELSE IF s[e] = "}" THEN ParseOk(Obj(acc2), e + 1)
                      ELSE IF s[e] = "," THEN ParseMembers(s, e + 1, acc2)
                      ELSE ParseFail

\* the elements of an array from position i (after "[" or ","), acc the elements so far
ParseElements(s, i, acc) ==
  LET pv == ParseValue(s, SkipWs(s, i)) IN
  IF ~pv.ok THEN ParseFail
  ELSE LET acc2 == Append(acc, pv.v)
           e == SkipWs(s, pv.i)
       IN IF e > Len(s) THEN ParseFail
          ELSE IF s[e] = "]" THEN ParseOk(Arr(acc2), e + 1)
          ELSE IF s[e] = "," THEN ParseElements(s, e + 1, acc2)
          ELSE ParseFail

\* one JSON value starting at position i (no whitespace before it)
ParseValue(s, i) ==
  IF i > Len(s) THEN ParseFail
  ELSE CASE s[i] = "{" ->
              LET k == SkipWs(s, i + 1) IN
              IF k <= Len(s) /\ s[k] = "}" THEN ParseOk(Obj(EmptyMap), k + 1)
              ELSE ParseMembers(s, i + 1, EmptyMap)
         [] s[i] = "[" ->
              LET k == SkipWs(s, i + 1) IN
              IF k <= Len(s) /\ s[k] = "]" THEN ParseOk(Arr(<<>>), k + 1)
              ELSE ParseElements(s, i + 1, <<>>)
         [] s[i] = Quote ->
              LET q == ScanQuote(s, i + 1) IN
              IF q = 0 THEN ParseFail
              ELSE ParseOk(Str(SubSeq(s, i + 1, q - 1)), q + 1)
         [] s[i] = "null" -> ParseOk(Null, i + 1)
         [] s[i] = "true" -> ParseOk(Bool(TRUE), i + 1)
         [] s[i] = "false" -> ParseOk(Bool(FALSE), i + 1)
         [] s[i] \in NumberLexemes -> ParseOk(Num(s[i]), i + 1)
         [] OTHER -> ParseFail

\* JSON.parse(s): [ok |-> FALSE] stands for the SyntaxError it throws
JSONParse(s) ==
  LET pv == ParseValue(s, SkipWs(s, 1)) IN
  IF pv.ok /\ SkipWs(s, pv.i) > Len(s) THEN [ok |-> TRUE, v |-> pv.v]
  ELSE [ok |-> FALSE, v |-> Undef]

(***************************************************************************)
(* stripCodeFences                                                         *)
(***************************************************************************)
\* the backquote character (written by name: the character itself is not usable here)
BackTick == "BQ"
IsFence(s, i) ==
  /\ i >= 1 /\ i + 2 <= Len(s)
  /\ s[i] = BackTick /\ s[i + 1] = BackTick /\ s[i + 2] = BackTick

\* /json/i at position i
IsJsonTag(s, i) ==
  /\ i + 3 <= Len(s)
  /\ s[i] \in {"j", "J"} /\ s[i + 1] \in {"s", "S"}
  /\ s[i + 2] \in {"o", "O"} /\ s[i + 3] \in {"n", "N"}

\* s.replace(/^BQ BQ BQ(json)?/i, ""), BQ the backquote
StripOpenFence(s) ==
  IF IsFence(s, 1)
  THEN IF IsJsonTag(s, 4) THEN SubSeq(s, 8, Len(s)) ELSE SubSeq(s, 4, Len(s))
  ELSE s

\* s.replace(/BQ BQ BQ$/i, ""): without the m flag, $ is the end of the input only
StripCloseFence(s) ==
  IF IsFence(s, Len(s) - 2) THEN SubSeq(s, 1, Len(s) - 3) ELSE s

RECURSIVE TrimLeft(_)
TrimLeft(s) == IF s # <<>> /\ s[1] \in Ws THEN TrimLeft(Tail(s)) ELSE s
RECURSIVE TrimRight(_)
TrimRight(s) ==
  IF s # <<>> /\ s[Len(s)] \in Ws THEN TrimRight(SubSeq(s, 1, Len(s) - 1)) ELSE s
\* s.trim()
Trim(s) == TrimRight(TrimLeft(s))

\* stripCodeFences without the second replace
stripCodeFencesOpenOnly(s) == Trim(StripOpenFence(s))

stripCodeFences(s) == Trim(StripCloseFence(StripOpenFence(s)))


(***************************************************************************)
(* JSON.stringify, and what a value is once sent as JSON and read back     *)
(***************************************************************************)
RECURSIVE JSONStringify(_)
RECURSIVE StringifyMembers(_, _)
RECURSIVE StringifyElements(_)

\* the members of object map o whose keys are in ks, in some order
StringifyMembers(o, ks) ==
  IF ks = {} THEN <<>>
  ELSE LET k == CHOOSE x \in ks : TRUE
           m == <<Quote, k, Quote, ":">> \o JSONStringify(o[k])
       IN IF ks = {k} THEN m ELSE m \o <<",">> \o StringifyMembers(o, ks \ {k})

StringifyElements(a) ==
  IF a = <<>> THEN <<>>
  ELSE LET e == IF a[1].t = "undefined" THEN <<"null">> ELSE JSONStringify(a[1])
       IN IF Len(a) = 1 THEN e ELSE e \o <<",">> \o StringifyElements(Tail(a))

\* JSON.stringify(v), v not undefined: a member whose value is undefined is left out
JSONStringify(v) ==
  CASE v.t = "null" -> <<"null">>
    [] v.t = "bool" -> IF v.b THEN <<"true">> ELSE <<"false">>
    [] v.t = "num" -> <<v.n>>
    [] v.t = "str" -> <<Quote>> \o v.s \o <<Quote>>
    [] v.t = "arr" -> <<"[">> \o StringifyElements(v.a) \o <<"]">>
    [] OTHER ->
         <<"{">> \o
         StringifyMembers(v.o, {k \in DOMAIN v.o : v.o[k].t # "undefined"}) \o
         <<"}">>

(***************************************************************************)
(* Program constants                                                       *)
(***************************************************************************)
TitleMax == 140
SnippetMax == 500
SourcesMax == 5

ErrNoImage ==
  <<"N", "o", " ", "i", "m", "a", "g", "e", " ", "s", "u", "p", "p", "l",
    "i", "e", "d">>
ErrMisconfigured ==
  <<"S", "e", "r", "v", "e", "r", " ", "m", "i", "s", "c", "o", "n", "f",
    "i", "g", "u", "r", "a", "t", "i", "o", "n", ":", " ", "O", "P", "E",
    "N", "A", "I", "_", "A", "P", "I", "_", "K", "E", "Y", " ", "i", "s",
    " ", "n", "o", "t", " ", "s", "e", "t">>
ErrNonJsonStage1 ==
  <<"M", "o", "d", "e", "l", " ", "r", "e", "t", "u", "r", "n", "e", "d",
    " ", "n", "o", "n", "-", "J", "S", "O", "N", " ", "i", "n", " ", "s",
    "t", "a", "g", "e", " ", "1">>
ErrNonJson ==
  <<"M", "o", "d", "e", "l", " ", "r", "e", "t", "u", "r", "n", "e", "d",
    " ", "n", "o", "n", "-", "J", "S", "O", "N">>
ErrUnexpected ==
  <<"U", "n", "e", "x", "p", "e", "c", "t", "e", "d", " ", "e", "r", "r",
    "o", "r">>
GroundingFailedNote ==
  <<" (Grounding step failed to parse JSON; prices may be less reliable.)">>
QuerySuffix == <<" price site:wine-searcher.com OR ...">>
LabelFields ==
  <<"producer", "wine", "appellation", "region", "country", "vintage">>

(***************************************************************************)
(* Helpers of the POST handler                                             *)
(***************************************************************************)
Min(a, b) == IF a < b THEN a ELSE b

\* s.slice(0, n)
SliceTo(s, n) == SubSeq(s, 1, Min(n, Len(s)))

\* a.filter(Boolean)
RECURSIVE FilterTruthy(_)
FilterTruthy(a) ==
  IF a = <<>> THEN <<>>
  ELSE IF Truthy(a[1]) THEN <<a[1]>> \o FilterTruthy(Tail(a))
  ELSE FilterTruthy(Tail(a))

\* the query without the early return for an empty label
buildQueryFromLabelNoGuard(label) ==
  LET rl == Get(label, "recognizedLabel")
      fields == [i \in 1..Len(LabelFields) |-> Get(rl, LabelFields[i])]
  IN JoinJS(FilterTruthy(fields), <<" ">>) \o QuerySuffix

\* buildQueryFromLabel(label): the query as a string, "" when there is nothing to ask
buildQueryFromLabel(label) ==
  LET rl == Get(label, "recognizedLabel")
      fields == [i \in 1..Len(LabelFields) |-> Get(rl, LabelFields[i])]
      parts == JoinJS(FilterTruthy(fields), <<" ">>)
  IN IF parts = <<>> THEN <<>> ELSE parts \o QuerySuffix

\* An exception is an Error carrying a message.
Error(msg) == [isError |-> TRUE, message |-> msg]

\* NextResponse.json(body, {status})
Response(status, body) == [status |-> status, body |-> body]
ErrorResponse(status, msg) == Response(status, Obj([error |-> Str(msg)]))

\* an outermost catch that hides the message
OuterCatchGeneric(err) == ErrorResponse(500, ErrUnexpected)

\* the outermost catch: err instanceof Error ? err.message : "Unexpected error"
OuterCatch(err) ==
  ErrorResponse(500, IF err.isError THEN err.message ELSE ErrUnexpected)

NoImageResponse == ErrorResponse(400, ErrNoImage)
MisconfiguredResponse == ErrorResponse(500, ErrMisconfigured)
\* a 502 that carries the stripped text instead of the raw one
NonJsonResponseStripped(msg, raw) ==
  Response(502, Obj([error |-> Str(msg), raw |-> Str(stripCodeFences(raw))]))
NonJsonResponse(msg, raw) == Response(502, Obj([error |-> Str(msg), raw |-> Str(raw)]))
OkResponse(data) == Response(200, Obj([ok |-> Bool(TRUE), data |-> data]))

\* the content with "" where there is none
ContentOrEmptyText(content) ==
  IF Truthy(content) THEN content.s ELSE <<>>

\* choices?.[0]?.message?.content || "{}"
ContentOrEmptyObject(content) ==
  IF Truthy(content) THEN content.s ELSE <<"{", "}">>

\* Array.isArray(v)
IsArray(v) == v.t = "arr"

\* A value that is neither an object nor an array and is not null or undefined.
IsPrimitive(v) == v.t \in {"bool", "num", "str"}

Thrown(msg) == [ok |-> FALSE, err |-> Error(msg), v |-> Undef]
Returned(v) == [ok |-> TRUE, err |-> Error(<<>>), v |-> v]

\* t?.slice(0, n): [ok |-> FALSE] when t has no slice method (a TypeError)
OptSlice(t, n) ==
  CASE Nullish(t) -> Returned(Undef)
    [] t.t = "str" -> Returned(Str(SliceTo(t.s, n)))
    [] t.t = "arr" -> Returned(Arr(SliceTo(t.a, n)))
    [] OTHER -> Thrown(<<"slice is not a function">>)

\* x || d
OrElse(x, d) == IF Truthy(x) THEN x ELSE d

\* a callback that copies title and content as they are
EvidenceItemUncut(r) ==
  IF Nullish(r) THEN Thrown(<<"Cannot read properties of null (reading 'title')">>)
  ELSE Returned(Obj([title |-> OrElse(Get(r, "title"), Str(<<"Result">>)),
                     url |-> Get(r, "url"),
                     snippet |-> OrElse(Get(r, "content"), Str(<<>>))]))

\* the callback of data.results.map: one search result to one evidence item
EvidenceItem(r) ==
  IF Nullish(r) THEN Thrown(<<"Cannot read properties of null (reading 'title')">>)
  ELSE LET title == OptSlice(Get(r, "title"), TitleMax)
           snippet == OptSlice(Get(r, "content"), SnippetMax)
       IN IF ~title.ok THEN title
          ELSE IF ~snippet.ok THEN snippet
          ELSE Returned(Obj([title |-> OrElse(title.v, Str(<<"Result">>)),
                             url |-> Get(r, "url"),
                             snippet |-> OrElse(snippet.v, Str(<<>>))]))

\* data.results?.map(...) ?? []: the evidence, or the TypeError raised on the way
EvidenceOfData(data) ==
  IF Nullish(data) THEN Thrown(<<"Cannot read properties of null (reading 'results')">>)
  ELSE LET results == Get(data, "results") IN
    IF Nullish(results) THEN Returned(<<>>)
    ELSE IF ~IsArray(results) THEN Thrown(<<"data.results.map is not a function">>)
    ELSE LET items == [i \in 1..Len(results.a) |-> EvidenceItem(results.a[i])] IN
      IF \E i \in 1..Len(items) : ~items[i].ok
      THEN items[CHOOSE i \in 1..Len(items) :
                   ~items[i].ok /\ \A j \in 1..(i - 1) : items[j].ok]
      ELSE Returned([i \in 1..Len(items) |-> items[i].v])

\* The evidence after the search call: the try block of stage 2 with its empty
\* catch.  out is what fetch and searchRes.json() did.
EvidenceAfterSearch(out) ==
  CASE out.kind = "throws" -> <<>>
    [] out.kind = "status" -> <<>>
    [] out.kind = "badjson" -> <<>>
    [] OTHER -> LET e == EvidenceOfData(out.data) IN IF e.ok THEN e.v ELSE <<>>

\* { title: e.title, url: e.url }, as it is once sent as JSON
SourceOfEvidence(e) ==
  IF Get(e, "url").t = "undefined"
  THEN Obj([title |-> Get(e, "title")])
  ELSE Obj([title |-> Get(e, "title"), url |-> Get(e, "url")])

\* evidence.slice(0, 5).map((e) => ({ title: e.title, url: e.url }))
BackfillSources(evidence) ==
  LET top == SliceTo(evidence, SourcesMax)
  IN Arr([i \in 1..Len(top) |-> SourceOfEvidence(top[i])])

\* obj.k = x in strict mode: a TypeError on a primitive, a property that is not
\* part of the JSON form on an array
Assign(v, k, x) ==
  CASE Nullish(v) -> Thrown(<<"Cannot set properties of null">>)
    [] IsPrimitive(v) -> Thrown(<<"Cannot create property on a primitive value">>)
    [] v.t = "arr" -> Returned(v)
    [] OTHER -> Returned(Put(v, k, x))

\* a fallback that forgets the note
GroundingFallbackNoNote(parsed1) == Returned(parsed1)

\* the catch of the stage-3 parse: back to the vision result, with the note
GroundingFallback(parsed1) ==
  IF Nullish(parsed1)
  THEN Thrown(<<"Cannot read properties of null (reading 'priceEstimate')">>)
  ELSE LET pe == OrElse(Get(parsed1, "priceEstimate"), Obj(EmptyMap))
           withPe == Assign(parsed1, "priceEstimate", pe)
           note == ToStringJS(OrElse(Get(pe, "note"), Str(<<>>))) \o GroundingFailedNote
           withNote == Assign(pe, "note", Str(note))
       IN IF ~withPe.ok THEN withPe
          ELSE IF ~withNote.ok THEN withNote
          ELSE Assign(parsed1, "priceEstimate", withNote.v)

\* "Add top sources if model didn't"
AddTopSources(finalData, evidence) ==
  IF Nullish(finalData)
  THEN Thrown(<<"Cannot read properties of null (reading 'sources')">>)
  ELSE LET src == Get(finalData, "sources") IN
    IF ~IsArray(src) \/ Len(src.a) = 0
    THEN Assign(finalData, "sources", BackfillSources(evidence))
    ELSE Returned(finalData)

\* Stage 3 after the model call returned text raw2: the final record, or the
\* exception that leaves the block
GroundedSynthesis(parsed1, evidence, raw2) ==
  LET p == JSONParse(stripCodeFences(raw2))
      fd == IF p.ok THEN Returned(p.v) ELSE GroundingFallback(parsed1)
  IN IF ~fd.ok THEN fd ELSE AddTopSources(fd.v, evidence)

(***************************************************************************)
(* What the environment supplies: requests, credentials, and what the      *)
(* model and the search provider answer.                                   *)
(***************************************************************************)
\* the largest number of results the search provider returns
MaxHits == 6

Digits == <<"1", "2", "3", "4", "5", "6", "7", "8", "9">>

\* form.get("image"): null (no such field), a string (a text field), or a File
NoField == [kind |-> "none", type |-> ""]
TextField == [kind |-> "string", type |-> ""]
FileField(type) == [kind |-> "file", type |-> type]
ImageFields == {NoField, TextField, FileField("image/jpeg"), FileField("")}

\* a request: req.formData() throws, or gives a form
Requests ==
  {[form |-> "throws", image |-> NoField]} \cup
  {[form |-> "ok", image |-> f] : f \in ImageFields}
FormErrorMessage ==
  <<"F", "a", "i", "l", "e", "d", " ", "t", "o", " ", "p", "a", "r", "s",
    "e", " ", "b", "o", "d", "y", " ", "a", "s", " ", "F", "o", "r", "m",
    "D", "a", "t", "a", ".">>

\* process.env.X: undefined, or a string
KeyValues == {Undef, Str(<<>>), Str(<<"key">>)}

QuotaMessage ==
  <<"4", "2", "9", " ", "Y", "o", "u", " ", "e", "x", "c", "e", "e", "d",
    "e", "d", " ", "y", "o", "u", "r", " ", "c", "u", "r", "r", "e", "n",
    "t", " ", "q", "u", "o", "t", "a">>
ConnectionMessage ==
  <<"C", "o", "n", "n", "e", "c", "t", "i", "o", "n", " ", "e", "r", "r",
    "o", "r", ".">>
ProviderErrors ==
  {Error(QuotaMessage), Error(ConnectionMessage)}

Label(producer) == Obj([producer |-> producer, vintage |-> Num("2015")])
Petrus == Str(<<"Petrus">>)
PriceGuess ==
  Obj([currency |-> Str(<<"GBP">>), low |-> Num("12"), high |-> Num("18"),
       confidence |-> Str(<<"low">>), note |-> Str(<<"from the label only">>)])
PriceGrounded ==
  Obj([currency |-> Str(<<"GBP">>), low |-> Num("12"), high |-> Num("18"),
       confidence |-> Str(<<"medium">>), note |-> Str(<<"from two retailers">>)])
Source(i) ==
  Obj([title |-> Str(<<"title", Digits[i]>>), url |-> Str(<<"url", Digits[i]>>)])
Sources(n) == Arr([i \in 1..n |-> Source(i)])
FullRecord ==
  Obj([recognizedLabel |-> Label(Petrus),
       grapes |-> Arr(<<Str(<<"Merlot">>)>>),
       priceEstimate |-> PriceGuess,
       sources |-> Arr(<<>>)])

\* the values stage 1 may describe
Stage1Records ==
  {Obj(EmptyMap),
   FullRecord,
   \* nothing legible on the label
   Obj([recognizedLabel |-> Obj([producer |-> Str(<<>>), vintage |-> Null]),
        priceEstimate |-> PriceGuess, sources |-> Arr(<<>>)]),
   Obj([recognizedLabel |-> Obj([producer |-> Arr(<<>>)])]),
   Obj([recognizedLabel |-> Label(Petrus), priceEstimate |-> PriceGuess]),
   Obj([recognizedLabel |-> Label(Petrus), sources |-> Arr(<<>>)]),
   Obj([recognizedLabel |-> Label(Petrus), priceEstimate |-> Null]),
   Obj([recognizedLabel |-> Label(Petrus),
        priceEstimate |-> Obj([currency |-> Str(<<"GBP">>)])]),
   Obj([recognizedLabel |-> Label(Petrus),
        priceEstimate |-> Obj([note |-> Num("5")])]),
   Obj([recognizedLabel |-> Label(Petrus), priceEstimate |-> Str(<<"cheap">>)]),
   Obj([recognizedLabel |-> Label(Petrus), priceEstimate |-> Arr(<<Num("12")>>)]),
   Obj([recognizedLabel |-> Label(Petrus), priceEstimate |-> PriceGuess,
        sources |-> Sources(1)]),
   Obj([recognizedLabel |-> Label(Petrus), priceEstimate |-> PriceGuess,
        sources |-> Sources(SourcesMax + 1)]),
   Null, Arr(<<>>), Num("5"), Petrus}

\* the values stage 3 may describe
Stage3Records ==
  {Obj(EmptyMap),
   Obj([recognizedLabel |-> Label(Petrus), priceEstimate |-> PriceGrounded,
        sources |-> Sources(2)]),
   Obj([recognizedLabel |-> Label(Petrus), priceEstimate |-> PriceGrounded,
        sources |-> Sources(SourcesMax + 1)]),
   Obj([recognizedLabel |-> Label(Str(<<"Pomerol">>)),
        priceEstimate |-> PriceGrounded]),
   Obj([priceEstimate |-> PriceGrounded, sources |-> Arr(<<>>)]),
   Obj([priceEstimate |-> PriceGrounded, sources |-> Str(<<"none">>)]),
   Null, Arr(<<>>), Num("5")}

\* ways a model wraps its JSON
FenceOpen == <<BackTick, BackTick, BackTick>>
Fenced(j) == FenceOpen \o <<"j", "s", "o", "n", "\n">> \o j \o <<"\n">> \o FenceOpen
FencedTight(j) == FenceOpen \o <<"j", "s", "o", "n">> \o j \o FenceOpen
FencedUpper(j) == FenceOpen \o <<"J", "S", "O", "N", "\n">> \o j \o <<"\n">> \o FenceOpen
FencedPlain(j) == FenceOpen \o <<"\n">> \o j \o <<"\n">> \o FenceOpen
FencedThenNewline(j) == Fenced(j) \o <<"\n">>
SpaceThenFenced(j) == <<" ">> \o Fenced(j)
Padded(j) == <<" ", "\n">> \o j \o <<"\n">>
Wrappings(j) ==
  {j, Fenced(j), FencedTight(j), FencedUpper(j), FencedPlain(j),
   FencedThenNewline(j), SpaceThenFenced(j), Padded(j)}

NotJson == <<"n", "o", "t", " ", "j", "s", "o", "n">>
Truncated == <<"{", Quote, "recognizedLabel", Quote, ":">>

\* choices?.[0]?.message?.content of the stage-1 answer
Stage1Contents ==
  {Undef, Str(<<>>), Str(NotJson), Str(Truncated)} \cup
  {Str(JSONStringify(r)) : r \in Stage1Records} \cup
  {Str(Fenced(JSONStringify(r))) : r \in Stage1Records} \cup
  {Str(w) : w \in Wrappings(JSONStringify(FullRecord))} \cup
  {Str(w) : w \in Wrappings(JSONStringify(Obj(EmptyMap)))}

\* choices?.[0]?.message?.content of the stage-3 answer
Stage3Contents ==
  {Undef, Str(NotJson)} \cup
  {Str(JSONStringify(r)) : r \in Stage3Records} \cup
  {Str(Fenced(JSONStringify(Obj([priceEstimate |-> PriceGrounded])))),
   Str(FencedThenNewline(JSONStringify(Obj([priceEstimate |-> PriceGrounded]))))}

\* what a model call does: it throws, or answers with a content
ModelOutcomes(contents) ==
  {[kind |-> "throws", err |-> e, content |-> Undef] : e \in ProviderErrors} \cup
  {[kind |-> "answer", err |-> Error(<<>>), content |-> c] : c \in contents}

\* a search result
Hit(i) ==
  Obj([title |-> Str(<<"title", Digits[i]>>), url |-> Str(<<"url", Digits[i]>>),
       content |-> Str(<<"content", Digits[i]>>)])
LongHit ==
  Obj([title |-> Str([i \in 1..(TitleMax + 1) |-> "t"]), url |-> Str(<<"url">>),
       content |-> Str([i \in 1..(SnippetMax + 1) |-> "c"])])
SearchData ==
  {Null, Obj(EmptyMap),
   Obj([results |-> Str(<<"none">>)]),
   Obj([results |-> Arr(<<Null>>)]),
   Obj([results |-> Arr(<<Obj([title |-> Num("5"), url |-> Str(<<"url">>)])>>)]),
   Obj([results |-> Arr(<<Obj([url |-> Str(<<"url">>)])>>)]),
   Obj([results |-> Arr(<<Obj([title |-> Str(<<>>)])>>)]),
   Obj([results |-> Arr(<<LongHit>>)])} \cup
  {Obj([results |-> Arr([i \in 1..n |-> Hit(i)])]) : n \in 0..MaxHits}

\* what the search call does: fetch throws, a non-OK status, a body that is
\* not JSON, or a JSON body
SearchOutcomes ==
  {[kind |-> "throws", data |-> Undef], [kind |-> "status", data |-> Undef],
   [kind |-> "badjson", data |-> Undef]} \cup
  {[kind |-> "json", data |-> d] : d \in SearchData}

(***************************************************************************)
(* POST /api/analyze                                                       *)
(***************************************************************************)
VARIABLES
  handler,    \* which route file is deployed: "grounded" (three stages) or "simple"
  env,        \* process.env
  pc,         \* where the handler of the current request is suspended
  req,        \* the current request
  apiKey,     \* process.env.OPENAI_API_KEY as read by the handler
  visionOut,  \* what the stage-1 model call did
  json1,      \* json1: raw1 without its code fences
  parsed1,    \* stage 1's record as parsed (the fallback's note is not written here)
  tavilyKey,  \* process.env.TAVILY_API_KEY as read after stage 1
  query,      \* q
  searchOut,  \* what the search call did
  evidence,   \* evidence
  groundOut,  \* what the stage-3 model call did
  caught,     \* the exceptions that reached the outermost catch
  responses,  \* the responses sent for the current request
  calls       \* the external calls issued for the current request, in order

serverVars ==
  <<handler, env, pc, req, apiKey, visionOut, json1, parsed1, tavilyKey, query,
    searchOut, evidence, groundOut, caught, responses, calls>>

VARIABLES
  fileRef,    \* fileRef.current.files[0]: 0 when the input holds no file
  preview,    \* preview: 0 for null, else the object URL of that file
  loading,    \* loading
  result,     \* result
  error,      \* error
  clientPc,   \* "idle", or "fetch" while onSubmit awaits the response
  sent,       \* the file appended to the form data of the last request
  caughtMsg,  \* msg as the catch block first reads it, Undef when nothing was caught
  res,        \* how the last fetch that settled did settle
  fetches     \* the requests issued by the last submission

clientVars ==
  <<fileRef, preview, loading, result, error, clientPc, sent, caughtMsg, res,
    fetches>>

VARIABLES
  previous    \* the responses sent for the request before the current one

\* the fetch has not settled
NoFetchOutcome == [kind |-> "none", ok |-> FALSE, body |-> <<>>]

ClientInit ==
  /\ fileRef = 0
  /\ preview = 0
  /\ loading = FALSE
  /\ result = Null
  /\ error = Null
  /\ clientPc = "idle"
  /\ sent = 0
  /\ caughtMsg = Undef
  /\ res = NoFetchOutcome
  /\ fetches = 0

NoModelOutcome == [kind |-> "none", err |-> Error(<<>>), content |-> Undef]
NoSearchOutcome == [kind |-> "none", data |-> Undef]

ServerInit ==
  /\ handler \in {"grounded", "simple"}
  /\ env \in [{"OPENAI_API_KEY", "TAVILY_API_KEY"} -> KeyValues]
  /\ pc = "idle"
  /\ req = [form |-> "ok", image |-> NoField]
  /\ apiKey = Undef
  /\ visionOut = NoModelOutcome
  /\ json1 = <<>>
  /\ parsed1 = Undef
  /\ tavilyKey = Undef
  /\ query = <<>>
  /\ searchOut = NoSearchOutcome
  /\ evidence = <<>>
  /\ groundOut = NoModelOutcome
  /\ caught = <<>>
  /\ responses = <<>>
  /\ calls = <<>>

\* process.env[k] read once and kept: a later request sees what an earlier read
ReadEnvOnce(k) ==
  IF pc = "idle" THEN env[k]
  ELSE IF k = "OPENAI_API_KEY" THEN apiKey ELSE tavilyKey

\* process.env[k], read when the handler reaches the statement
ReadEnv(k) == env[k]

\* the guards in the other order
ValidationKeyFirst(image, key) ==
  IF ~Truthy(key) THEN <<MisconfiguredResponse>>
  ELSE IF image.kind # "file" THEN <<NoImageResponse>>
  ELSE <<>>

\* the guards without the credential check
ValidationImageOnly(image, key) ==
  IF image.kind # "file" THEN <<NoImageResponse>> ELSE <<>>

\* the two guards at the head of the handler: the response they return, if any
Validation(image, key) ==
  IF image.kind # "file" THEN <<NoImageResponse>>
  ELSE IF ~Truthy(key) THEN <<MisconfiguredResponse>>
  ELSE <<>>

\* raw1 / raw2
RawOf(out) == ContentOrEmptyObject(out.content)

\* return NextResponse.json(...)
Respond(resp) ==
  /\ responses' = Append(responses, resp)
  /\ pc' = "done"

\* an exception leaves the try block: the outermost catch answers
Escapes(err) ==
  /\ caught' = Append(caught, err)
  /\ Respond(OuterCatch(err))

\* A request arrives: the handler runs up to its first external call.
POST(r) ==
  /\ pc \in {"idle", "done"}
  /\ UNCHANGED clientVars
  /\ req' = r
  /\ visionOut' = NoModelOutcome /\ json1' = <<>> /\ parsed1' = Undef
  /\ tavilyKey' = Undef
  /\ query' = <<>> /\ searchOut' = NoSearchOutcome /\ evidence' = <<>>
  /\ groundOut' = NoModelOutcome
  /\ UNCHANGED <<handler, env>>
  /\ IF r.form = "throws"
     THEN /\ apiKey' = Undef
          /\ caught' = <<Error(FormErrorMessage)>>
          /\ responses' = <<OuterCatch(Error(FormErrorMessage))>>
          /\ pc' = "done"
          /\ calls' = <<>>
     ELSE LET early == Validation(r.image, ReadEnv("OPENAI_API_KEY")) IN
          /\ apiKey' = IF r.image.kind = "file" THEN ReadEnv("OPENAI_API_KEY") ELSE Undef
          /\ caught' = <<>>
          /\ IF early # <<>>
             THEN /\ responses' = early
                  /\ pc' = "done"
                  /\ calls' = <<>>
             ELSE /\ responses' = <<>>
                  /\ pc' = "vision"
                  /\ calls' = <<"vision">>

\* The stage-1 call completes (part_001): parse, then search or answer.
VisionReturns(out) ==
  /\ handler = "grounded"
  /\ UNCHANGED clientVars
  /\ pc = "vision"
  /\ visionOut' = out
  /\ UNCHANGED <<handler, env, req, apiKey, searchOut, evidence, groundOut>>
  /\ IF out.kind = "throws"
     THEN /\ Escapes(out.err)
          /\ UNCHANGED <<json1, parsed1, tavilyKey, query, calls>>
     ELSE LET stripped == stripCodeFences(RawOf(out))
              p == JSONParse(stripped)
              key == ReadEnv("TAVILY_API_KEY")
              q == buildQueryFromLabel(p.v)
          IN /\ json1' = stripped
             /\ UNCHANGED caught
             /\ IF ~p.ok
                THEN /\ Respond(NonJsonResponse(ErrNonJsonStage1, RawOf(out)))
                     /\ UNCHANGED <<parsed1, tavilyKey, query, calls>>
                ELSE /\ parsed1' = p.v
                     /\ tavilyKey' = key
                     /\ query' = q
                     /\ IF Truthy(key) /\ q # <<>>
                        THEN /\ pc' = "search"
                             /\ calls' = Append(calls, "search")
                             /\ UNCHANGED responses
                        ELSE /\ Respond(OkResponse(p.v))
                             /\ UNCHANGED calls

\* The model call completes (route.ts): parse and answer.
VisionReturnsSimple(out) ==
  /\ handler = "simple"
  /\ UNCHANGED clientVars
  /\ pc = "vision"
  /\ visionOut' = out
  /\ UNCHANGED <<handler, env, req, apiKey, tavilyKey, query, searchOut,
                 evidence, groundOut, calls>>
  /\ IF out.kind = "throws"
     THEN /\ Escapes(out.err)
          /\ UNCHANGED <<json1, parsed1>>
     ELSE LET stripped == stripCodeFences(RawOf(out))
              p == JSONParse(stripped)
          IN /\ json1' = stripped
             /\ UNCHANGED caught
             /\ IF ~p.ok
                THEN /\ Respond(NonJsonResponse(ErrNonJson, RawOf(out)))
                     /\ UNCHANGED parsed1
                ELSE /\ parsed1' = p.v
                     /\ Respond(OkResponse(p.v))

\* a search that is tried again when it fails
SearchReturnsWithRetry(out) ==
  /\ pc = "search"
  /\ UNCHANGED clientVars
  /\ searchOut' = out
  /\ evidence' = EvidenceAfterSearch(out)
  /\ UNCHANGED <<handler, env, req, apiKey, visionOut, json1, parsed1,
                 tavilyKey, query, groundOut, caught>>
  /\ IF out.kind = "throws" /\ Len(calls) < 3
     THEN /\ calls' = Append(calls, "search")
          /\ UNCHANGED <<pc, responses>>
     ELSE IF Len(evidence') > 0
     THEN /\ pc' = "grounding"
          /\ calls' = Append(calls, "grounding")
          /\ UNCHANGED responses
     ELSE /\ Respond(OkResponse(parsed1))
          /\ UNCHANGED calls

\* The search call completes: evidence, then stage 3 or answer.
SearchReturns(out) ==
  /\ pc = "search"
  /\ UNCHANGED clientVars
  /\ searchOut' = out
  /\ evidence' = EvidenceAfterSearch(out)
  /\ UNCHANGED <<handler, env, req, apiKey, visionOut, json1, parsed1,
                 tavilyKey, query, groundOut, caught>>
  /\ IF Len(evidence') > 0
     THEN /\ pc' = "grounding"
          /\ calls' = Append(calls, "grounding")
          /\ UNCHANGED responses
     ELSE /\ Respond(OkResponse(parsed1))
          /\ UNCHANGED calls

\* The stage-3 call completes: merge or fall back, backfill the sources, answer.
GroundedReturns(out) ==
  /\ pc = "grounding"
  /\ UNCHANGED clientVars
  /\ groundOut' = out
  /\ UNCHANGED <<handler, env, req, apiKey, visionOut, json1, parsed1,
                 tavilyKey, query, searchOut, evidence, calls>>
  /\ IF out.kind = "throws"
     THEN Escapes(out.err)
     ELSE LET g == GroundedSynthesis(parsed1, evidence, RawOf(out)) IN
          IF g.ok
          THEN Respond(OkResponse(g.v)) /\ UNCHANGED caught
          ELSE Escapes(g.err)

\* The operator sets or removes a credential.
SetEnv(k, v) ==
  /\ env[k] # v
  /\ UNCHANGED clientVars
  /\ env' = [env EXCEPT ![k] = v]
  /\ UNCHANGED <<handler, pc, req, apiKey, visionOut, json1, parsed1, tavilyKey,
                 query, searchOut, evidence, groundOut, caught, responses, calls>>

(***************************************************************************)
(* Rendering the result (SafeResult, ResultCard, Field, PillList, safeStr)  *)
(***************************************************************************)
\* the placeholder, an em dash
EmDash == <<"EMDASH">>

\* x ?? d
Coalesce(x, d) == IF Nullish(x) THEN d ELSE x

\* the callback of grapesRaw.map: one entry to one { variety, percent }
GrapePart(g) ==
  IF g.t = "str" THEN Obj([variety |-> g, percent |-> Null])
  ELSE Obj([variety |-> Str(ToStringJS(Coalesce(Get(g, "variety"), Str(<<>>)))),
            percent |-> IF Get(g, "percent").t = "num"
                        THEN Get(g, "percent") ELSE Null])

\* the normalisation with every percent dropped
grapesVarietyOnly(data) ==
  LET grapesRaw == Coalesce(Get(data, "grapes"), Arr(<<>>)) IN
  IF IsArray(grapesRaw)
  THEN [i \in 1..Len(grapesRaw.a) |->
          Obj([variety |-> GrapePart(grapesRaw.a[i]).o.variety, percent |-> Null])]
  ELSE <<>>

\* grapes: data.grapes normalised to a list of { variety, percent }
grapes(data) ==
  LET grapesRaw == Coalesce(Get(data, "grapes"), Arr(<<>>)) IN
  IF IsArray(grapesRaw)
  THEN [i \in 1..Len(grapesRaw.a) |-> GrapePart(grapesRaw.a[i])]
  ELSE <<>>

\* safeStr(v)
safeStr(v) ==
  IF v.t = "str" THEN v.s
  ELSE IF ~Nullish(v) THEN ToStringJS(v)
  ELSE EmDash

\* what <Field k v /> displays after its label: v || the placeholder
Field(v) == IF v # <<>> THEN v ELSE EmDash

RECURSIVE ChildOk(_)
\* React accepts v as a child: anything but a plain object, arrays element-wise
ChildOk(v) ==
  CASE v.t = "obj" -> FALSE
    [] v.t = "arr" -> \A i \in 1..Len(v.a) : ChildOk(v.a[i])
    [] OTHER -> TRUE

RECURSIVE ChildText(_)
\* what React displays for a child: nothing for a boolean, null or undefined
ChildText(v) ==
  CASE v.t = "str" -> v.s
    [] v.t = "num" -> <<v.n>>
    [] v.t = "arr" ->
         IF v.a = <<>> THEN <<>>
         ELSE ChildText(v.a[1]) \o ChildText(Arr(Tail(v.a)))
    [] OTHER -> <<>>

\* (x ?? []).filter(Boolean) throws: x has no filter method
FilterThrows(x) == ~Nullish(x) /\ ~IsArray(x)

\* a PillList that shows the placeholder for an empty list
PillListWithPlaceholder(x) ==
  IF FilterTruthy(Coalesce(x, Arr(<<>>)).a) = <<>> THEN <<Str(EmDash)>>
  ELSE FilterTruthy(Coalesce(x, Arr(<<>>)).a)

\* <PillList items={(x ?? []).filter(Boolean)} />: the pills, none when it returns null
PillList(x) == FilterTruthy(Coalesce(x, Arr(<<>>)).a)

\* the fields that ResultCard displays through <Field />
FieldLabels ==
  {"Producer", "Wine", "Appellation", "Region", "Country", "Vintage",
   "Sweetness", "Acidity", "Tannin", "Body", "Alcohol", "Finish Length",
   "From", "To", "Peak From", "Peak To", "Decant",
   "Currency", "Range", "Confidence"}

\* the parts that ResultCard displays without <Field />
SectionLabels ==
  {"Grapes", "Nose", "Palate", "Finish", "Primary", "Secondary", "Tertiary",
   "Note", "Caveats"}

\* The render of <ResultCard data />, children included: what each field and
\* section displays (<<>> when it displays nothing), or the error thrown.
ResultCard(data) ==
  LET rl == Coalesce(Get(data, "recognizedLabel"), Obj(EmptyMap))
      tn == Coalesce(Get(data, "tastingNotes"), Obj(EmptyMap))
      w2 == Coalesce(Get(tn, "wsetLevel2"), Obj(EmptyMap))
      dw == Coalesce(Get(data, "drinkWindow"), Obj(EmptyMap))
      pe == Coalesce(Get(data, "priceEstimate"), Obj(EmptyMap))
      af == Coalesce(Get(data, "aromasAndFlavours"), Obj(EmptyMap))
      lists == [l \in {"Nose", "Palate", "Primary", "Secondary", "Tertiary"} |->
                 CASE l = "Nose" -> Get(tn, "nose")
                   [] l = "Palate" -> Get(tn, "palate")
                   [] l = "Primary" -> Get(af, "primary")
                   [] l = "Secondary" -> Get(af, "secondary")
                   [] l = "Tertiary" -> Get(af, "tertiary")]
      g == grapes(data)
      caveats == IF IsArray(Get(data, "caveats")) THEN Get(data, "caveats").a ELSE <<>>
      finish == IF Truthy(Get(tn, "finish")) THEN Get(tn, "finish") ELSE Str(<<>>)
      note == IF Truthy(Get(pe, "note")) THEN Get(pe, "note") ELSE Str(<<>>)
      field == [l \in FieldLabels |->
                 CASE l = "Producer" -> safeStr(Get(rl, "producer"))
                   [] l = "Wine" -> safeStr(Get(rl, "wine"))
                   [] l = "Appellation" -> safeStr(Get(rl, "appellation"))
                   [] l = "Region" -> safeStr(Get(rl, "region"))
                   [] l = "Country" -> safeStr(Get(rl, "country"))
                   [] l = "Vintage" ->
                        IF ~Nullish(Get(rl, "vintage"))
                        THEN ToStringJS(Get(rl, "vintage")) ELSE EmDash
                   [] l = "Sweetness" -> safeStr(Get(w2, "sweetness"))
                   [] l = "Acidity" -> safeStr(Get(w2, "acidity"))
                   [] l = "Tannin" -> safeStr(Get(w2, "tannin"))
                   [] l = "Body" -> safeStr(Get(w2, "body"))
                   [] l = "Alcohol" -> safeStr(Get(w2, "alcohol"))
                   [] l = "Finish Length" -> safeStr(Get(w2, "finishLength"))
                   [] l = "From" -> safeStr(Get(dw, "from"))
                   [] l = "To" -> safeStr(Get(dw, "to"))
                   [] l = "Peak From" -> safeStr(Get(dw, "peakFrom"))
                   [] l = "Peak To" -> safeStr(Get(dw, "peakTo"))
                   [] l = "Decant" -> safeStr(Get(dw, "decant"))
                   [] l = "Currency" -> safeStr(Get(pe, "currency"))
                   [] l = "Range" ->
                        IF ~Nullish(Get(pe, "low")) /\ ~Nullish(Get(pe, "high"))
                        THEN ToStringJS(Get(pe, "low")) \o <<" - ">> \o
                             ToStringJS(Get(pe, "high"))
                        ELSE EmDash
                   [] l = "Confidence" -> safeStr(Get(pe, "confidence"))]
  IN IF \E l \in DOMAIN lists : FilterThrows(lists[l])
     THEN Thrown(<<"filter is not a function">>)
     ELSE IF \/ \E l \in DOMAIN lists : ~ChildOk(Arr(PillList(lists[l])))
             \/ ~ChildOk(finish) \/ ~ChildOk(note) \/ ~ChildOk(Arr(caveats))
     THEN Thrown(<<"Objects are not valid as a React child">>)
     ELSE Returned(
       [l \in FieldLabels \cup SectionLabels |->
          CASE l \in FieldLabels -> Field(field[l])
            [] l = "Grapes" ->
                 IF Len(g) > 0
                 THEN ChildText(Arr([i \in 1..Len(g) |->
                        Arr(<<g[i].o.variety>> \o
                            (IF g[i].o.percent # Null
                             THEN <<Str(<<" ">>), g[i].o.percent, Str(<<"%">>)>>
                             ELSE <<>>))]))
                 ELSE EmDash
            [] l \in DOMAIN lists -> ChildText(Arr(PillList(lists[l])))
            [] l = "Finish" -> ChildText(finish)
            [] l = "Note" -> ChildText(note)
            [] l = "Caveats" -> ChildText(Arr(caveats))])

\* SafeResult(result): its try block builds the element <ResultCard data={result} />
\* and returns it; ResultCard itself runs later, when React renders the element.
SafeResult(r) == [element |-> "ResultCard", data |-> r]

\* the notice of SafeResult's catch block
RenderFailedNotice(msg) == <<"Component crashed while rendering: ">> \o msg

\* What the page shows below the form for a result: nothing, the card, or,
\* when the render of the card throws with no error boundary above it, nothing
\* of the page at all.
ResultView(r) ==
  IF ~Truthy(r) THEN [kind |-> "none"]
  ELSE LET card == ResultCard(SafeResult(r).data) IN
       IF card.ok THEN [kind |-> "card", shows |-> card.v]
       ELSE [kind |-> "crashed", message |-> card.err.message]

(***************************************************************************)
(* The submission client (Page)                                            *)
(***************************************************************************)
MaxFiles == 2

UpperCase ==
  <<"A", "B", "C", "D", "E", "F", "G", "H", "I", "J", "K", "L", "M",
    "N", "O", "P", "Q", "R", "S", "T", "U", "V", "W", "X", "Y", "Z">>
LowerCase ==
  <<"a", "b", "c", "d", "e", "f", "g", "h", "i", "j", "k", "l", "m",
    "n", "o", "p", "q", "r", "s", "t", "u", "v", "w", "x", "y", "z">>

\* the case folding of the i flag
Fold(c) ==
  IF \E n \in 1..26 : UpperCase[n] = c
  THEN LowerCase[CHOOSE n \in 1..26 : UpperCase[n] = c]
  ELSE c

\* /pat/.test(s) for a literal pattern, /pat/i.test(s) when ignoreCase
Test(pat, ignoreCase, s) ==
  \E i \in 1..(Len(s) - Len(pat) + 1) :
    \A j \in 1..Len(pat) :
      IF ignoreCase THEN Fold(s[i + j - 1]) = Fold(pat[j])
      ELSE s[i + j - 1] = pat[j]

Re429 == <<"4", "2", "9">>
ReQuota == <<"q", "u", "o", "t", "a">>
Re401 == <<"4", "0", "1">>
ReUnauthorized == <<"u", "n", "a", "u", "t", "h", "o", "r", "i", "z", "e", "d">>
ReNoImage == 
  <<"N", "o", " ", "i", "m", "a", "g", "e", " ", "s", "u", "p", "p", "l", "i", "e", "d">>

\* the texts shown to the user (their leading warning sign left out)
MsgRateLimited ==
  <<"You've used up your OpenAI credits or hit a rate limit. Please check your OpenAI billing and try again later.">>
MsgApiKey ==
  <<"API key problem. Check your OPENAI_API_KEY in Vercel -> Project -> Settings -> Environment Variables.">>
MsgPleaseUpload == <<"Please upload a wine label image before analyzing.">>
MsgSomethingWrong ==
  <<"S", "o", "m", "e", "t", "h", "i", "n", "g", " ", "w", "e", "n", "t",
    " ", "w", "r", "o", "n", "g", ".">>
MsgRequestFailed ==
  <<"R", "e", "q", "u", "e", "s", "t", " ", "f", "a", "i", "l", "e", "d">>

HasRateLimitMarker(msg) == Test(Re429, FALSE, msg) \/ Test(ReQuota, TRUE, msg)
HasAuthMarker(msg) == Test(Re401, FALSE, msg) \/ Test(ReUnauthorized, TRUE, msg)
HasNoImageMarker(msg) == Test(ReNoImage, TRUE, msg)

\* the chain with the credential test first
ClassifyAuthFirst(msg) ==
  IF HasAuthMarker(msg) THEN MsgApiKey
  ELSE IF HasRateLimitMarker(msg) THEN MsgRateLimited
  ELSE IF HasNoImageMarker(msg) THEN MsgPleaseUpload
  ELSE msg

\* the if / else-if chain of the catch block: the text that setError receives
Classify(msg) ==
  IF HasRateLimitMarker(msg) THEN MsgRateLimited
  ELSE IF HasAuthMarker(msg) THEN MsgApiKey
  ELSE IF HasNoImageMarker(msg) THEN MsgPleaseUpload
  ELSE msg

\* err instanceof Error ? err.message : "Something went wrong."
MessageOf(err) == IF err.isError THEN err.message ELSE MsgSomethingWrong

\* the SyntaxError of res.json()
JsonSyntaxMessage ==
  <<"U", "n", "e", "x", "p", "e", "c", "t", "e", "d", " ", "t", "o", "k",
    "e", "n", " ", "<", " ", "i", "n", " ", "J", "S", "O", "N", " ", "a",
    "t", " ", "p", "o", "s", "i", "t", "i", "o", "n", " ", "0">>
\* the TypeError of json.data when the body is null
NullDataMessage ==
  <<"C", "a", "n", "n", "o", "t", " ", "r", "e", "a", "d", " ", "p", "r",
    "o", "p", "e", "r", "t", "i", "e", "s", " ", "o", "f", " ", "n", "u",
    "l", "l", " ", "(", "r", "e", "a", "d", "i", "n", "g", " ", "'", "d",
    "a", "t", "a", "'", ")">>
\* the TypeError of a rejected fetch
FailedToFetchMessage ==
  <<"F", "a", "i", "l", "e", "d", " ", "t", "o", " ", "f", "e", "t", "c",
    "h">>
AuthMessage ==
  <<"4", "0", "1", " ", "I", "n", "c", "o", "r", "r", "e", "c", "t", " ",
    "A", "P", "I", " ", "k", "e", "y", " ", "p", "r", "o", "v", "i", "d",
    "e", "d">>
\* the provider quotes the end of the rejected key
MaskedKeyMessage ==
  <<"4", "0", "1", " ", "I", "n", "c", "o", "r", "r", "e", "c", "t", " ",
    "A", "P", "I", " ", "k", "e", "y", " ", "p", "r", "o", "v", "i", "d",
    "e", "d", ":", " ", "s", "k", "-", "*", "*", "*", "4", "2", "9", "0">>
UnauthorizedMessage ==
  <<"U", "n", "a", "u", "t", "h", "o", "r", "i", "z", "e", "d">>
QuotaUpperMessage ==
  <<"Q", "u", "o", "t", "a", " ", "e", "x", "c", "e", "e", "d", "e", "d">>
NoImageLowerMessage ==
  <<"n", "o", " ", "i", "m", "a", "g", "e", " ", "s", "u", "p", "p", "l",
    "i", "e", "d">>

\* the error texts a non-OK response may carry
ServerMessages ==
  {ErrNoImage, ErrMisconfigured, ErrNonJsonStage1, ErrUnexpected, QuotaMessage,
   ConnectionMessage, AuthMessage, MaskedKeyMessage, UnauthorizedMessage,
   QuotaUpperMessage, NoImageLowerMessage, <<>>}

HtmlBody == <<"<", "h", "t", "m", "l", ">">>

Merlot == Str(<<"Merlot">>)
Franc == Str(<<"Cabernet Franc">>)

\* a record with every section of the schema filled in as the schema says
WholeRecord ==
  Obj([recognizedLabel |-> Label(Petrus),
       grapes |-> Arr(<<Obj([variety |-> Merlot, percent |-> Num("18")])>>),
       tastingNotes |-> Obj([nose |-> Arr(<<Str(<<"plum">>)>>),
                             palate |-> Arr(<<Str(<<"cedar">>), Str(<<>>)>>),
                             finish |-> Str(<<"long">>),
                             wsetLevel2 |-> Obj([sweetness |-> Str(<<"dry">>)])]),
       drinkWindow |-> Obj([from |-> Str(<<"2025">>), decant |-> Str(<<>>)]),
       priceEstimate |-> PriceGuess,
       aromasAndFlavours |-> Obj([primary |-> Arr(<<Str(<<"plum">>)>>)]),
       caveats |-> Arr(<<Str(<<"label partly hidden">>)>>),
       sources |-> Arr(<<>>)])

\* records in which every optional field is missing or null
EmptyRecords ==
  {Obj(EmptyMap),
   Obj([recognizedLabel |-> Null, grapes |-> Null, tastingNotes |-> Null,
        drinkWindow |-> Null, priceEstimate |-> Null,
        aromasAndFlavours |-> Null, caveats |-> Null]),
   Obj([recognizedLabel |-> Obj([producer |-> Null, vintage |-> Null]),
        tastingNotes |-> Obj([nose |-> Null, palate |-> Null, finish |-> Null,
                              wsetLevel2 |-> Null]),
        drinkWindow |-> Obj([from |-> Null]),
        priceEstimate |-> Obj([low |-> Null, high |-> Null, note |-> Null]),
        aromasAndFlavours |-> Obj([primary |-> Null])])}

\* the shapes 'grapes' may take
GrapesRecords ==
  {Obj([grapes |-> g]) :
     g \in {Arr(<<Merlot, Franc>>),
            Arr(<<Obj([variety |-> Merlot, percent |-> Num("18")]),
                  Obj([variety |-> Franc, percent |-> Str(<<"12">>)]),
                  Obj([variety |-> Merlot])>>),
            Arr(<<Franc, Obj([percent |-> Num("5")]), Null, Num("5")>>),
            Arr(<<>>),
            Merlot,
            Obj([variety |-> Merlot, percent |-> Num("18")])}}

\* records with a value of the wrong type in a section or a list field
MalformedRecords ==
  {Obj([recognizedLabel |-> Petrus, priceEstimate |-> Arr(<<Num("12")>>)]),
   Obj([recognizedLabel |-> Obj([producer |-> Obj(EmptyMap), vintage |-> Petrus])]),
   Obj([tastingNotes |-> Obj([nose |-> Str(<<"plum">>)])]),
   Obj([aromasAndFlavours |-> Obj([primary |-> Num("5")])]),
   Obj([tastingNotes |-> Obj([finish |-> Obj([length |-> Str(<<"long">>)])])]),
   Obj([caveats |-> Arr(<<Obj([text |-> Str(<<"label partly hidden">>)])>>)]),
   Obj([caveats |-> Str(<<"label partly hidden">>)])}

\* the records a 200 response may carry
RenderRecords ==
  {FullRecord, WholeRecord} \cup EmptyRecords \cup GrapesRecords \cup MalformedRecords

\* what fetch("/api/analyze") may do: reject, or resolve with a response
FetchOutcomes ==
  {[kind |-> "throws", ok |-> FALSE, body |-> <<>>]}
  \cup {[kind |-> "response", ok |-> TRUE, body |-> b] :
          b \in {JSONStringify(OkResponse(r).body) : r \in RenderRecords}
                \cup
                {JSONStringify(Obj(EmptyMap)),
                 JSONStringify(Null),
                 HtmlBody}}
  \cup {[kind |-> "response", ok |-> FALSE, body |-> b] :
          b \in {JSONStringify(Obj([error |-> Str(m)])) : m \in ServerMessages}
                \cup {JSONStringify(Obj([error |-> Num("5")])),
                      JSONStringify(Null),
                      HtmlBody}}

\* the try block after fetch settles: the value for setResult, or what is thrown
TryBlock(out) ==
  IF out.kind = "throws" THEN Thrown(FailedToFetchMessage)
  ELSE LET p == JSONParse(out.body) IN
       IF ~p.ok THEN Thrown(JsonSyntaxMessage)
       ELSE IF ~out.ok
       THEN LET e == Get(p.v, "error") IN
            Thrown(IF e.t = "str" THEN e.s ELSE MsgRequestFailed)
       ELSE IF Nullish(p.v) THEN Thrown(NullDataMessage)
       ELSE Returned(Get(p.v, "data"))

\* The change event of the file input; f = 0 when the dialog left it empty.
onPickFile(f) ==
  /\ f # fileRef
  /\ UNCHANGED serverVars
  /\ fileRef' = f
  /\ IF f = 0
     THEN UNCHANGED <<preview, result, error>>
     ELSE /\ preview' = f
          /\ result' = Null
          /\ error' = Null
  /\ UNCHANGED <<loading, clientPc, sent, caughtMsg, res, fetches>>

\* onSubmit without setError(null) and setResult(null) at its head
onSubmitNoClear ==
  /\ ~loading
  /\ UNCHANGED serverVars
  /\ clientPc = "idle"
  /\ caughtMsg' = Undef
  /\ UNCHANGED <<fileRef, preview, res, result>>
  /\ IF fileRef = 0
     THEN /\ error' = Str(MsgPleaseUpload)
          /\ loading' = FALSE
          /\ sent' = 0
          /\ fetches' = 0
          /\ UNCHANGED clientPc
     ELSE /\ loading' = TRUE
          /\ sent' = fileRef
          /\ fetches' = 1
          /\ clientPc' = "fetch"
          /\ UNCHANGED error

\* The form is submitted: onSubmit runs up to its await, or to its early return.
onSubmit ==
  /\ ~loading
  /\ UNCHANGED serverVars
  /\ clientPc = "idle"
  /\ result' = Null
  /\ caughtMsg' = Undef
  /\ UNCHANGED <<fileRef, preview, res>>
  /\ IF fileRef = 0
     THEN /\ error' = Str(MsgPleaseUpload)
          /\ loading' = FALSE
          /\ sent' = 0
          /\ fetches' = 0
          /\ UNCHANGED clientPc
     ELSE /\ error' = Null
          /\ loading' = TRUE
          /\ sent' = fileRef
          /\ fetches' = 1
          /\ clientPc' = "fetch"

\* onSubmit with setLoading(false) at the end of the try block, not in a finally
FetchReturnsNoFinally(out) ==
  /\ clientPc = "fetch"
  /\ UNCHANGED serverVars
  /\ clientPc' = "idle"
  /\ res' = out
  /\ UNCHANGED <<fileRef, preview, sent, fetches>>
  /\ LET r == TryBlock(out) IN
     IF r.ok
     THEN /\ result' = r.v
          /\ loading' = FALSE
          /\ UNCHANGED <<error, caughtMsg>>
     ELSE /\ caughtMsg' = Str(MessageOf(r.err))
          /\ error' = Str(Classify(MessageOf(r.err)))
          /\ UNCHANGED <<result, loading>>

\* a client that sends the request once more when it fails
FetchReturnsWithRetry(out) ==
  /\ clientPc = "fetch"
  /\ UNCHANGED serverVars
  /\ res' = out
  /\ UNCHANGED <<fileRef, preview, sent>>
  /\ LET r == TryBlock(out) IN
     IF r.ok
     THEN /\ result' = r.v
          /\ clientPc' = "idle"
          /\ loading' = FALSE
          /\ UNCHANGED <<error, caughtMsg, fetches>>
     ELSE IF fetches < 2
     THEN /\ fetches' = fetches + 1
          /\ UNCHANGED <<clientPc, loading, result, error, caughtMsg>>
     ELSE /\ caughtMsg' = Str(MessageOf(r.err))
          /\ error' = Str(Classify(MessageOf(r.err)))
          /\ clientPc' = "idle"
          /\ loading' = FALSE
          /\ UNCHANGED <<result, fetches>>

\* The request settles: the rest of the try block, the catch and the finally.
FetchReturns(out) ==
  /\ clientPc = "fetch"
  /\ UNCHANGED serverVars
  /\ clientPc' = "idle"
  /\ loading' = FALSE
  /\ res' = out
  /\ UNCHANGED <<fileRef, preview, sent, fetches>>
  /\ LET r == TryBlock(out) IN
     IF r.ok
     THEN /\ result' = r.v
          /\ UNCHANGED <<error, caughtMsg>>
     ELSE /\ caughtMsg' = Str(MessageOf(r.err))
          /\ error' = Str(Classify(MessageOf(r.err)))
          /\ UNCHANGED result

vars == <<serverVars, clientVars, previous>>

Init == ServerInit /\ ClientInit /\ previous = <<>>

Next ==
  \/ \E r \in Requests : POST(r) /\ UNCHANGED previous
  \/ \E out \in ModelOutcomes(Stage1Contents) :
       VisionReturns(out) /\ UNCHANGED previous
  \/ \E out \in ModelOutcomes(Stage1Contents) :
       VisionReturnsSimple(out) /\ UNCHANGED previous
  \/ \E out \in SearchOutcomes : SearchReturns(out) /\ UNCHANGED previous
  \/ \E out \in ModelOutcomes(Stage3Contents) :
       GroundedReturns(out) /\ UNCHANGED previous
  \/ \E k \in DOMAIN env, v \in KeyValues : SetEnv(k, v) /\ UNCHANGED previous

Spec == Init /\ [][Next]_vars

ClientNext ==
  \/ \E f \in 0..MaxFiles : onPickFile(f) /\ UNCHANGED previous
  \/ onSubmit /\ UNCHANGED previous
  \/ \E out \in FetchOutcomes : FetchReturns(out) /\ UNCHANGED previous

ClientSpec == Init /\ [][ClientNext]_vars

\* one outcome of fetch for each way a request can end: a rejection, a 200 with
\* a record, a non-OK status with and without a message, a body that is not JSON
EndingOutcomes ==
  {o \in FetchOutcomes :
     \/ o.kind = "throws"
     \/ o.body \in {JSONStringify(OkResponse(FullRecord).body),
                    JSONStringify(Obj([error |-> Str(QuotaMessage)])),
                    JSONStringify(Null),
                    HtmlBody}}

\* The request settles in one of these ways.
Settles == \E out \in EndingOutcomes : FetchReturns(out) /\ UNCHANGED previous

\* The client when every request settles: fetch resolves or rejects in the end,
\* and the continuation of onSubmit then runs.
ClientLiveNext ==
  \/ \E f \in 0..MaxFiles : onPickFile(f) /\ UNCHANGED previous
  \/ onSubmit /\ UNCHANGED previous
  \/ Settles

ClientLiveSpec == Init /\ [][ClientLiveNext]_vars /\ WF_vars(Settles)

\* what the model answers in a run of consecutive requests
FewContents ==
  {Str(JSONStringify(FullRecord)), Str(Fenced(JSONStringify(FullRecord))), Str(NotJson)}

\* what the search answers in a run of consecutive requests
FewSearchOutcomes ==
  {o \in SearchOutcomes :
     o.kind # "json" \/ o.data \in {Obj([results |-> Arr(<<Hit(1)>>)]), Obj(EmptyMap)}}

\* Consecutive requests to one server process, the answer to each remembered
\* while the next is served.
ConsecutiveNext ==
  \/ \E r \in Requests : POST(r) /\ previous' = responses
  \/ \E out \in ModelOutcomes(FewContents) :
       VisionReturns(out) /\ UNCHANGED previous
  \/ \E out \in ModelOutcomes(FewContents) :
       VisionReturnsSimple(out) /\ UNCHANGED previous
  \/ \E out \in FewSearchOutcomes : SearchReturns(out) /\ UNCHANGED previous
  \/ \E out \in ModelOutcomes(FewContents) :
       GroundedReturns(out) /\ UNCHANGED previous
  \/ \E k \in DOMAIN env, v \in KeyValues : SetEnv(k, v) /\ UNCHANGED previous

ConsecutiveSpec == Init /\ [][ConsecutiveNext]_vars

(***************************************************************************)
(* Properties of POST /api/analyze                                         *)
(***************************************************************************)
Answered == pc = "done" /\ Len(responses) = 1
Status == responses[1].status
Body == responses[1].body
Data == Get(Body, "data")

\* v without the members named in ks
WithoutKeys(v, ks) == [k \in (DOMAIN v.o) \ ks |-> v.o[k]]

\* C1: a request whose form has no 'image' field, or whose 'image' field is not
\* a file, is answered 400 "No image supplied", whether or not the model
\* credential is configured.
C1_NoImageIs400 ==
  (pc = "done" /\ req.form = "ok" /\ req.image.kind # "file") =>
    /\ Len(responses) = 1
    /\ Status = 400
    /\ Body = Obj([error |-> Str(ErrNoImage)])

C1_Witness ==
  /\ pc = "done" /\ req.form = "ok" /\ req.image.kind = "string"
  /\ ~Truthy(env["OPENAI_API_KEY"])
  /\ Status = 400

\* C2: a request that submits an image while OPENAI_API_KEY is not set is
\* answered 500 with the server-misconfiguration error, whatever the image.
C2_MissingKeyIs500 ==
  (pc # "idle" /\ req.form = "ok" /\ req.image.kind = "file" /\ ~Truthy(apiKey)) =>
    /\ pc = "done"
    /\ Len(responses) = 1
    /\ Status = 500
    /\ Body = Obj([error |-> Str(ErrMisconfigured)])

C2_Witness ==
  /\ pc = "done" /\ req.form = "ok" /\ req.image = FileField("")
  /\ apiKey = Str(<<>>)
  /\ Status = 500

\* C3: whenever the stage-1 text, after fence stripping, does not parse as JSON,
\* the response is 502 and its 'raw' is the model's text as received.
C3_NonJsonIs502WithRaw ==
  (visionOut.kind = "answer" /\ ~JSONParse(json1).ok) =>
    /\ pc = "done"
    /\ Len(responses) = 1
    /\ Status = 502
    /\ Get(Body, "raw") = visionOut.content

C3_Witness ==
  /\ pc = "done"
  /\ visionOut.kind = "answer"
  /\ visionOut.content = Str(FencedThenNewline(JSONStringify(FullRecord)))
  /\ json1 # visionOut.content.s
  /\ Status = 502

\* the 'sources' of record d is an empty list (or there is none)
SourcesEmpty(d) ==
  LET src == Get(d, "sources")
  IN src.t = "undefined" \/ (IsArray(src) /\ Len(src.a) = 0)

\* no evidence was gathered for want of a search credential, or because the
\* search call threw or returned a non-OK status
NoEvidenceGathered ==
  \/ ~Truthy(tavilyKey)
  \/ searchOut.kind \in {"throws", "status"}

\* C4: with an image, a model credential and a stage-1 output that parses, when
\* no evidence is gathered (no search credential, or the search call throws or
\* returns a non-OK status) the response is 200, its record has an empty
\* 'sources' list and its 'priceEstimate' is stage 1's.
C4_NoEvidenceKeepsStage1 ==
  (handler = "grounded" /\ pc = "done" /\ parsed1 # Undef /\ NoEvidenceGathered) =>
    /\ Len(responses) = 1
    /\ Status = 200
    /\ SourcesEmpty(Data)
    /\ Get(Data, "priceEstimate") = Get(parsed1, "priceEstimate")

\* stage 3 ran and its text did not parse
Stage3Unparsable ==
  /\ groundOut.kind = "answer"
  /\ ~JSONParse(stripCodeFences(RawOf(groundOut))).ok

\* a note as text: "" when there is none
NoteText(n) == IF Truthy(n) THEN ToStringJS(n) ELSE <<>>

\* price estimate pd is pr (or {} when pr is missing or null) with the notice
\* appended to its note, and nothing else changed
NoteAppended(pd, pr) ==
  LET base == IF Truthy(pr) THEN pr ELSE Obj(EmptyMap)
  IN /\ pd.t = "obj" /\ base.t = "obj"
     /\ WithoutKeys(pd, {"note"}) = WithoutKeys(base, {"note"})
     /\ Get(pd, "note").t = "str"
     /\ Get(pd, "note").s =
          NoteText(Get(base, "note")) \o
          <<" (Grounding step failed to parse JSON; prices may be less reliable.)">>

\* src lists the {title, url} of the first (at most 5) evidence items, in order
IsBackfill(src) ==
  /\ IsArray(src)
  /\ Len(src.a) = Min(5, Len(evidence))
  /\ \A i \in 1..Len(src.a) :
       /\ Get(src.a[i], "title") = Get(evidence[i], "title")
       /\ Get(src.a[i], "url") = Get(evidence[i], "url")
       /\ DOMAIN src.a[i].o \subseteq {"title", "url"}

OptionalCallFailed ==
  \/ searchOut.kind \in {"throws", "status", "badjson"}
  \/ groundOut.kind = "throws"

C6_OptionalPathsNeverAbort ==
  (handler = "grounded" /\ pc = "done" /\ parsed1 # Undef /\ OptionalCallFailed) =>
    /\ Len(responses) = 1
    /\ Status = 200
    /\ "data" \in DOMAIN Body.o

\* C7: in every 200 response the record's 'sources' list has at most 5 entries.
C7_SourcesAtMostFive ==
  (handler = "grounded" /\ Answered /\ Status = 200) =>
    (IsArray(Get(Data, "sources")) => Len(Get(Data, "sources").a) <= 5)

\* the JSON object texts the stage-1 model may send, each with its fenced forms
ObjectTexts == {JSONStringify(r) : r \in {x \in Stage1Records : x.t = "obj"}}
FencedForms(j) == {Fenced(j), FencedTight(j), FencedUpper(j)}
UnfencedForms(j) == {j, Padded(j)}

\* C8: for a JSON object text J, J wrapped in a json code fence, then
\* stripCodeFences and JSON.parse, gives the object that parsing J gives; applied
\* to unfenced J, stripCodeFences changes nothing but surrounding whitespace.
C8_FenceRoundTrip ==
  (visionOut.kind = "answer" /\ visionOut.content.t = "str") =>
    \A j \in ObjectTexts :
      /\ visionOut.content.s \in FencedForms(j) =>
           /\ JSONParse(j).ok
           /\ JSONParse(json1) = JSONParse(j)
           /\ parsed1 = JSONParse(j).v
      /\ visionOut.content.s \in UnfencedForms(j) =>
           /\ json1 = Trim(visionOut.content.s)
           /\ parsed1 = JSONParse(j).v

C8_Witness ==
  /\ visionOut.kind = "answer"
  /\ visionOut.content = Str(Fenced(JSONStringify(FullRecord)))
  /\ parsed1 = FullRecord
  /\ json1 = JSONStringify(FullRecord)

\* C9: no exception escapes the handler: an exception that is not handled
\* locally (the form read, the stage-1 or stage-3 model call, a failure inside
\* stage 3) gives exactly one response, with status 500 and the exception's
\* message as 'error'.
C9_EscapedExceptionIs500 ==
  /\ pc = "done" => Len(responses) = 1
  /\ pc # "done" => responses = <<>>
  /\ (req.form = "throws" /\ pc # "idle") => Len(caught) = 1
  /\ visionOut.kind = "throws" => caught = <<visionOut.err>>
  /\ groundOut.kind = "throws" => caught = <<groundOut.err>>
  /\ caught # <<>> =>
       /\ Len(caught) = 1
       /\ pc = "done"
       /\ Status = 500
       /\ Body = Obj([error |-> Str(caught[1].message)])

C9_Witness ==
  /\ pc = "done"
  /\ groundOut.kind = "throws"
  /\ caught = <<groundOut.err>>
  /\ Status = 500
  /\ Get(Body, "error") = Str(QuotaMessage)

\* the call was issued for the current request
Issued(call) == \E i \in 1..Len(calls) : calls[i] = call

\* an identifying field that is there: a non-empty string or a number
Present(v) == (v.t = "str" /\ v.s # <<>>) \/ v.t = "num"

\* stage 1's record names the wine by at least one of its six identifying fields
IdentifyingFieldPresent ==
  \E i \in 1..Len(LabelFields) :
    Present(Get(Get(parsed1, "recognizedLabel"), LabelFields[i]))

\* C17: once stage 1 has parsed, the search call has been issued if and only
\* if a search credential is configured and stage 1's record has an identifying
\* field present; the stage-3 call has been issued if and only if the search
\* left at least one evidence item.
C17_StageGating ==
  (handler = "grounded" /\ parsed1 # Undef) =>
    /\ Issued("search") <=> (Truthy(tavilyKey) /\ IdentifyingFieldPresent)
    /\ Issued("grounding") <=> Len(evidence) > 0

\* a request answered without a search although a search credential is
\* configured: the label had nothing legible
C17_Witness ==
  /\ Answered
  /\ handler = "grounded"
  /\ Status = 200
  /\ Truthy(tavilyKey)
  /\ parsed1.t = "obj"
  /\ ~IdentifyingFieldPresent
  /\ calls = <<"vision">>

\* C18: the external calls of a request are a prefix of stage-1 call, search
\* call, stage-3 call: each is issued once at most, a call is issued only after
\* the one before it has completed, and nothing is issued after a failure.
C18_CallsInOrderOnce ==
  /\ calls \in {<<>>, <<"vision">>, <<"vision", "search">>,
               <<"vision", "search", "grounding">>}
  /\ Len(calls) >= 2 => visionOut.kind = "answer"
  /\ Len(calls) = 3 => searchOut.kind = "json"
  /\ pc = "vision" => (calls = <<"vision">> /\ visionOut.kind = "none")
  /\ pc = "search" => (Len(calls) = 2 /\ searchOut.kind = "none")
  /\ pc = "grounding" => (Len(calls) = 3 /\ groundOut.kind = "none")
  /\ visionOut.kind = "throws" => (pc = "done" /\ calls = <<"vision">>)
  /\ searchOut.kind \in {"throws", "status", "badjson"} =>
       (pc = "done" /\ Len(calls) = 2)
  /\ groundOut.kind = "throws" => (pc = "done" /\ Len(calls) = 3)

\* a request answered after all three calls
C18_Witness ==
  /\ Answered
  /\ Status = 200
  /\ calls = <<"vision", "search", "grounding">>
  /\ groundOut.kind = "answer"

\* stage 1 answered with a text that does not parse once its fences are stripped
Stage1Unparsable ==
  /\ visionOut.kind = "answer"
  /\ ~JSONParse(stripCodeFences(RawOf(visionOut))).ok

\* C19: a request that fails validation (no image file: 400; image but no
\* model credential: 500) has issued no call at all; a request whose stage-1
\* text does not parse (502) has issued the stage-1 call and nothing else.
C19_FailFast ==
  /\ (pc = "done" /\ req.form = "ok" /\ req.image.kind # "file") =>
       (Status = 400 /\ calls = <<>>)
  /\ (pc = "done" /\ req.form = "ok" /\ req.image.kind = "file" /\ ~Truthy(apiKey)) =>
       (Status = 500 /\ calls = <<>>)
  /\ (pc = "done" /\ Stage1Unparsable) =>
       (Status = 502 /\ calls = <<"vision">> /\ searchOut.kind = "none"
          /\ groundOut.kind = "none")

\* a 502 from the three-stage handler while a search credential is configured
C19_Witness ==
  /\ Answered
  /\ handler = "grounded"
  /\ Stage1Unparsable
  /\ Truthy(env["TAVILY_API_KEY"])
  /\ Status = 502
  /\ calls = <<"vision">>

\* the record as stage 3 leaves it before the backfill: what its text parses
\* to, or stage 1's record when it does not parse
Stage3Record ==
  LET p == JSONParse(stripCodeFences(RawOf(groundOut)))
  IN IF p.ok THEN p.v ELSE parsed1

\* C20: once stage 3 has answered (its text parses, or the fallback is taken),
\* the record sent has, for 'sources', the non-empty list the stage-3 record
\* already had, and otherwise (missing, not a list, or empty) the {title, url}
\* of the first min(5, number of evidence items) evidence items in search order.
C20_SourcesBackfilled ==
  (pc = "done" /\ groundOut.kind = "answer") =>
    LET src == Get(Stage3Record, "sources")
    IN /\ Answered
       /\ Status = 200
       /\ IF IsArray(src) /\ Len(src.a) > 0
          THEN Get(Data, "sources") = src
          ELSE IsBackfill(Get(Data, "sources"))

\* stage 3 ran and its text parsed
Stage3Parsed ==
  /\ groundOut.kind = "answer"
  /\ JSONParse(stripCodeFences(RawOf(groundOut))).ok

\* the sections the grounding stage is asked to update
GroundedSections == {"priceEstimate", "drinkWindow", "sources"}

\* C21: when stage 3 runs and its text parses, the record returned has every
\* section other than 'priceEstimate', 'drinkWindow' and 'sources' equal to
\* stage 1's.
C21_GroundingKeepsOtherSections ==
  (Answered /\ Status = 200 /\ Stage3Parsed) =>
    /\ Data.t = "obj"
    /\ WithoutKeys(Data, GroundedSections) = WithoutKeys(parsed1, GroundedSections)

\* text field k of search result r is a string, or is missing or null
TextOrMissing(r, k) == Get(r, k).t \in {"str", "undefined", "null"}

\* the results are objects whose title and content are strings where present
WellTypedResults(results) ==
  \A i \in 1..Len(results.a) :
    /\ results.a[i].t = "obj"
    /\ TextOrMissing(results.a[i], "title")
    /\ TextOrMissing(results.a[i], "content")

\* text field k of r cut to n characters, or d when it is missing or empty
CutOrDefault(r, k, n, d) ==
  LET t == Get(r, k)
  IN IF t.t = "str" /\ Len(t.s) > 0
     THEN Str([i \in 1..Min(n, Len(t.s)) |-> t.s[i]])
     ELSE Str(d)

\* C22: after a search that answered OK with a JSON body, a body without a
\* results list gives no evidence; otherwise every evidence item is
\* {title, url, snippet} with the title of the result at the same position cut
\* to 140 characters ("Result" when missing or empty), its url, and its content
\* cut to 500 characters ("" when missing), one item per result in the
\* provider's order when the results are well typed.
C22_EvidenceNormalised ==
  searchOut.kind = "json" =>
    LET results == Get(searchOut.data, "results")
    IN IF ~IsArray(results)
       THEN evidence = <<>>
       ELSE /\ WellTypedResults(results) => Len(evidence) = Len(results.a)
            /\ Len(evidence) <= Len(results.a)
            /\ \A i \in 1..Len(evidence) :
                 /\ DOMAIN evidence[i].o = {"title", "url", "snippet"}
                 /\ Get(evidence[i], "title") =
                      CutOrDefault(results.a[i], "title", 140, <<"Result">>)
                 /\ Get(evidence[i], "url") = Get(results.a[i], "url")
                 /\ Get(evidence[i], "snippet") =
                      CutOrDefault(results.a[i], "content", 500, <<>>)

\* a result with a title of 141 and a content of 501 characters was cut
C22_Witness ==
  /\ searchOut.kind = "json"
  /\ Get(searchOut.data, "results") = Arr(<<LongHit>>)
  /\ Len(evidence) = 1
  /\ Len(Get(evidence[1], "title").s) = 140
  /\ Len(Get(evidence[1], "snippet").s) = 500
  /\ Len(Get(LongHit, "title").s) > 140

\* no call to a provider threw
NoProviderCallThrew ==
  /\ visionOut.kind = "answer"
  /\ searchOut.kind # "throws"
  /\ groundOut.kind # "throws"

\* C26: when stage 1's text parses as JSON and no provider call throws, the
\* response is 200 with a record, whatever JSON values stage 1 and stage 3
\* returned.
C26_ParsedStage1Answers200 ==
  (handler = "grounded" /\ pc = "done" /\ parsed1 # Undef /\ NoProviderCallThrew) =>
    /\ Answered
    /\ Status = 200
    /\ "data" \in DOMAIN Body.o

\* stage 1 answered with no choices, or with an empty content
Stage1Empty ==
  /\ visionOut.kind = "answer"
  /\ visionOut.content \in {Undef, Null, Str(<<>>)}

\* C27: a stage-1 answer with no choices or with an empty content is read as
\* the text "{}": the response is 200 with an empty record, not the 502, and
\* no search call and no stage-3 call is made.
C27_EmptyStage1IsEmptyRecord ==
  (pc = "done" /\ Stage1Empty) =>
    /\ json1 = <<"{", "}">>
    /\ parsed1 = Obj(EmptyMap)
    /\ Answered
    /\ Status = 200
    /\ Data = Obj(EmptyMap)
    /\ calls = <<"vision">>

\* an empty content answered 200 while a search credential was configured
C27_Witness ==
  /\ Answered
  /\ handler = "grounded"
  /\ visionOut.kind = "answer" /\ visionOut.content = Str(<<>>)
  /\ Truthy(tavilyKey)
  /\ Status = 200
  /\ Data = Obj(EmptyMap)

(***************************************************************************)
(* Properties of the submission client                                     *)
(***************************************************************************)
\* the step in which the catch block of onSubmit handles a failed request
RequestFails == clientPc = "fetch" /\ clientPc' = "idle" /\ caughtMsg' # Undef

\* C10 (as stated): when a request fails, a rate-limit marker in the error
\* message shows the credits / rate-limit text, a credential marker shows the
\* API-key text, and "No image supplied" shows the please-upload text.
C10_MarkerSelectsMessage ==
  [][RequestFails =>
       /\ HasRateLimitMarker(caughtMsg'.s) => error' = Str(MsgRateLimited)
       /\ HasAuthMarker(caughtMsg'.s) => error' = Str(MsgApiKey)
       /\ HasNoImageMarker(caughtMsg'.s) => error' = Str(MsgPleaseUpload)]_vars

\* C10 (amended): the markers are tried in order and the first match decides.
\* A rate-limit marker ("429", or "quota" in any case) shows the credits /
\* rate-limit text; a credential marker ("401", or "unauthorized" in any case)
\* shows the API-key text only when the message has no rate-limit marker; "No
\* image supplied" (any case) shows the please-upload text only when the
\* message has neither of the other markers.
C10_FirstMarkerSelectsMessage ==
  [][RequestFails =>
       /\ HasRateLimitMarker(caughtMsg'.s) => error' = Str(MsgRateLimited)
       /\ (HasAuthMarker(caughtMsg'.s) /\ ~HasRateLimitMarker(caughtMsg'.s))
            => error' = Str(MsgApiKey)
       /\ (HasNoImageMarker(caughtMsg'.s) /\ ~HasRateLimitMarker(caughtMsg'.s)
             /\ ~HasAuthMarker(caughtMsg'.s))
            => error' = Str(MsgPleaseUpload)]_vars

\* a failed request whose message carries both a credential and a rate-limit
\* marker has shown the rate-limit text
C10_Witness ==
  /\ clientPc = "idle"
  /\ fetches = 1
  /\ caughtMsg # Undef
  /\ HasAuthMarker(caughtMsg.s)
  /\ HasRateLimitMarker(caughtMsg.s)
  /\ error = Str(MsgRateLimited)

\* the message carries none of the three markers
Unmarked(msg) ==
  ~HasRateLimitMarker(msg) /\ ~HasAuthMarker(msg) /\ ~HasNoImageMarker(msg)

\* the fixed texts the client has of its own for a failure it does not recognise
GenericMessages == {MsgSomethingWrong, MsgRequestFailed}

\* a non-OK response whose body carries a (non-empty) error text
ServerSentError ==
  /\ res.kind = "response"
  /\ ~res.ok
  /\ JSONParse(res.body).ok
  /\ Get(JSONParse(res.body).v, "error").t = "str"
  /\ Get(JSONParse(res.body).v, "error").s # <<>>

\* C11: when a request fails with an error text from the server that carries
\* none of the rate-limit, credential or no-image markers, the client shows one
\* of its generic failure texts and not the text the server sent.
C11_UnmarkedFailureIsGeneric ==
  [][(RequestFails /\ ServerSentError' /\ Unmarked(caughtMsg'.s)) =>
       /\ error'.t = "str"
       /\ error'.s \in GenericMessages
       /\ error'.s # Get(JSONParse(res'.body).v, "error").s]_vars

\* C12: the view never holds a result and an error together, and while a
\* submission is in flight it holds neither (nothing of an earlier submission).
C12_NoStaleResultOrError ==
  /\ ~(~Nullish(result) /\ ~Nullish(error))
  /\ clientPc = "fetch" => (result = Null /\ error = Null)

\* a later submission is in flight after an earlier one was answered
C12_Witness ==
  /\ clientPc = "fetch"
  /\ res.kind = "response"
  /\ result = Null
  /\ error = Null

(***************************************************************************)
(* Properties of the rendering                                             *)
(***************************************************************************)
\* the 'grapes' of the record on display, as received
GrapesRaw == Get(result, "grapes")

\* C13: the record's 'grapes' is normalised so that a plain string entry becomes
\* { variety: the string, percent: null }, in order; a structured entry keeps
\* its variety and keeps its percent only when that is a number (null
\* otherwise); a missing or non-list 'grapes' becomes the empty list.
C13_GrapesNormalised ==
  Truthy(result) =>
    LET g == grapes(result) IN
    IF IsArray(GrapesRaw)
    THEN /\ Len(g) = Len(GrapesRaw.a)
         /\ \A i \in 1..Len(g) :
              LET e == GrapesRaw.a[i] IN
              /\ e.t = "str" => g[i] = Obj([variety |-> e, percent |-> Null])
              /\ e.t = "obj" =>
                   /\ Get(e, "variety").t = "str" => g[i].o.variety = Get(e, "variety")
                   /\ g[i].o.percent =
                        IF Get(e, "percent").t = "num" THEN Get(e, "percent") ELSE Null
    ELSE g = <<>>

\* a record with structured grapes, one with a percent, one with a percent that
\* is not a number, is on display
C13_Witness ==
  /\ Truthy(result)
  /\ IsArray(GrapesRaw)
  /\ \E i \in 1..Len(GrapesRaw.a) :
       GrapesRaw.a[i].t = "obj" /\ grapes(result)[i].o.percent = Num("18")
  /\ \E i \in 1..Len(GrapesRaw.a) :
       Get(GrapesRaw.a[i], "percent").t = "str" /\ grapes(result)[i].o.percent = Null

\* C14: whatever record a 200 response carried, the view does not crash: when
\* the render of the result card throws, the render-failed notice of SafeResult
\* is shown in its place.
C14_RenderFailureShowsNotice ==
  Truthy(result) =>
    IF ResultCard(result).ok
    THEN ResultView(result).kind = "card"
    ELSE ResultView(result) =
           [kind |-> "notice",
            shows |-> RenderFailedNotice(ResultCard(result).err.message)]

\* C15 (as stated): a record whose optional fields are all missing or null
\* renders without throwing and every field shows the placeholder.
C15_EmptyRecordAllPlaceholders ==
  result \in EmptyRecords =>
    /\ ResultView(result).kind = "card"
    /\ \A l \in FieldLabels \cup SectionLabels : ResultView(result).shows[l] = EmDash

\* C15 (amended): a record whose optional fields are all missing or null
\* renders without throwing; every field shown through Field (label, WSET
\* levels, drink window, currency, range, confidence) and the grapes row show
\* the placeholder; the nose, palate and aroma lists, the finish, the price
\* note and the caveats show nothing.
C15_EmptyRecordPlaceholdersOrOmitted ==
  result \in EmptyRecords =>
    /\ ResultView(result).kind = "card"
    /\ \A l \in FieldLabels \cup {"Grapes"} : ResultView(result).shows[l] = EmDash
    /\ \A l \in SectionLabels \ {"Grapes"} : ResultView(result).shows[l] = <<>>

\* a record of nulls is on display
C15_Witness ==
  /\ result \in EmptyRecords
  /\ Get(result, "tastingNotes") = Null
  /\ clientPc = "idle"
  /\ ResultView(result).kind = "card"
  /\ ResultView(result).shows["Producer"] = EmDash
  /\ ResultView(result).shows["Nose"] = <<>>

(***************************************************************************)
(* Properties of consecutive requests                                      *)
(***************************************************************************)
\* The response as a function of one request's own inputs: the handler h, the
\* request r, the credentials key and tkey as that request read them, and what
\* the stage-1 call (v), the search call (s) and the stage-3 call (g) did for it.
Answer(h, r, key, tkey, v, s, g) ==
  IF r.form = "throws" THEN OuterCatch(Error(FormErrorMessage))
  ELSE IF r.image.kind # "file" THEN NoImageResponse
  ELSE IF ~Truthy(key) THEN MisconfiguredResponse
  ELSE IF v.kind = "throws" THEN OuterCatch(v.err)
  ELSE LET p == JSONParse(stripCodeFences(RawOf(v))) IN
       IF ~p.ok
       THEN NonJsonResponse(IF h = "grounded" THEN ErrNonJsonStage1 ELSE ErrNonJson,
                            RawOf(v))
       ELSE IF h = "simple" \/ ~Truthy(tkey) \/ buildQueryFromLabel(p.v) = <<>>
       THEN OkResponse(p.v)
       ELSE IF Len(EvidenceAfterSearch(s)) = 0 THEN OkResponse(p.v)
       ELSE IF g.kind = "throws" THEN OuterCatch(g.err)
       ELSE LET f == GroundedSynthesis(p.v, EvidenceAfterSearch(s), RawOf(g)) IN
            IF f.ok THEN OkResponse(f.v) ELSE OuterCatch(f.err)

SubmitsWithoutFile ==
  /\ clientPc = "idle" /\ fileRef = 0
  /\ fileRef' = 0
  /\ clientVars' # clientVars

\* C23: a submission issues at most one network call (the call is issued when
\* the form is submitted with a file, and none is added when it settles), and
\* a submission with no file selected issues none and shows the please-upload
\* message.
C23_OneCallPerSubmission ==
  [][/\ fetches' <= 1
     /\ fetches' > fetches => (clientPc = "idle" /\ fileRef # 0 /\ sent' = fileRef)
     /\ SubmitsWithoutFile =>
          /\ fetches' = 0
          /\ clientPc' = "idle"
          /\ error' = Str(MsgPleaseUpload)
          /\ result' = Null]_vars

\* after a submission whose call failed, a submission with no file selected
C23_Witness ==
  /\ res.kind = "throws"
  /\ fileRef = 0
  /\ clientPc = "idle"
  /\ fetches = 0
  /\ error = Str(MsgPleaseUpload)

\* C24: every submission leaves the loading state: loading is true exactly
\* while the request is in flight and is false again once it has settled,
\* whatever the outcome; and while loading is true the submit button is
\* disabled, so no submission starts and no call is issued.
C24_LoadingEnds ==
  /\ loading ~> ~loading
  /\ [](loading <=> clientPc = "fetch")
  /\ [][loading => (sent' = sent /\ fetches' = fetches /\ (clientPc' = "idle" => ~loading'))]_vars

\* a submission that ended on a body that is not JSON, loading false again
C24_Witness ==
  /\ ~loading
  /\ clientPc = "idle"
  /\ sent # 0
  /\ res.kind = "response" /\ res.body = HtmlBody
  /\ error # Null

\* a result card or an error message of a settled request is on the page
ResponseShown ==
  /\ clientPc = "idle"
  /\ sent # 0
  /\ res.kind # "none"
  /\ Truthy(result) \/ Truthy(error)

\* C25: the result or error shown belongs to the image previewed: whenever the
\* outcome of a request is on the page, the file that request carried is the
\* file in the preview.
C25_ShownBelongsToPreview ==
  ResponseShown => sent = preview

=============================================================================
